---- MODULE Spec2Model ----
(***************************************************************************)
(* A model of the review cog of rumble-reviews (src/rumble/cogs/review.py): *)
(* the movie_reviews table and the upsert of ReviewSelect.callback, the     *)
(* OMDB lookups, and the handlers review, play_autocomplete, list_reviews   *)
(* and get_reviewed_movie_stats; and the bot object of src/rumble/__main__.py *)
(* with its setup_hook and close.                                           *)
(***************************************************************************)
EXTENDS Integers, Sequences, FiniteSets, TLC

VARIABLES
    store,      \* the rows of table movie_reviews
    views,      \* the ReviewSelect menus posted so far: <<movie_id, movie_name>>
    pending,    \* callbacks that have read the clock and await the store
    acking,     \* callbacks whose INSERT has completed and that have yet to
                \* send their acknowledgement
    reading,    \* runs of list_reviews and get_reviewed_movie_stats that hold
                \* the rows of their SELECT and have yet to answer
    done,       \* history: the submissions whose INSERT has completed
    clock,      \* what datetime.datetime.utcnow() returned last
    nsub,       \* number of callbacks started
    last,       \* the handler step taken last and what it sent
    bot         \* the RumbleReviewsBot object: its attributes and handles

vars == <<store, views, pending, acking, reading, done, clock, nsub, last, bot>>

----------------------------------------------------------------------------
(* Bounds of the model and constants of the program *)

MaxSubmissions == 2
MaxResults == 6
MaxReaders == 1

MinScore == 1
MaxScore == 10
limit == 5

\* Python's None, as a record so that it compares with the JSON objects
None == [none |-> TRUE]

----------------------------------------------------------------------------
(* The bot object *)

\* the fields of the dataclass EnvLoader
EnvLoaderAttrs ==
    {"DISCORD_BOT_TOKEN", "DATABASE_URL", "APPLICATION_ID", "OMDB_API_KEY"}

\* the bot as RumbleReviewsBot.__init__ leaves it: the attributes it assigns,
\* the state of the Mongo client, whether setup_hook has run ("not run",
\* "raised", "done") and whether commands.Bot.close has run
Constructed ==
    [attrs |-> {"env_loader", "mongo_client"},
     mongo_client |-> "None",
     setup |-> "not run",
     closed |-> FALSE]

\* self.bot.pg_pool evaluates
HasPool == "pg_pool" \in bot.attrs

----------------------------------------------------------------------------
(* The world the bot runs in *)

Guilds == {1, 2}

\* who can press a select menu: <<guild.id, user.id, user.display_name>>
Members == {<<1, 1, "ann">>, <<1, 2, "bob">>, <<2, 1, "ann">>}

Movies == {"tt1", "tt2"}

Up == <<"U", "p">>
Us == <<"U", "s">>
Titles == {Up, Us}

\* what an interaction delivers in self.values[0]: the first of the ten
\* options of the menu, and the nearest payload that is none of them
Values == {<<"1">>, <<"1", "1">>}

----------------------------------------------------------------------------
(* Text *)

Digit(c) ==
    CASE c = "0" -> 0 [] c = "1" -> 1 [] c = "2" -> 2 [] c = "3" -> 3
      [] c = "4" -> 4 [] c = "5" -> 5 [] c = "6" -> 6 [] c = "7" -> 7
      [] c = "8" -> 8 [] c = "9" -> 9

RECURSIVE IntOf(_)
\* int(s) for a string of decimal digits
IntOf(s) ==
    IF Len(s) = 1 THEN Digit(s[1])
    ELSE 10 * IntOf(SubSeq(s, 1, Len(s) - 1)) + Digit(s[Len(s)])

\* str.lower() on one character
LowerChar(c) ==
    CASE c = "U" -> "u" [] c = "P" -> "p" [] c = "S" -> "s" [] OTHER -> c

RECURSIVE ILike(_, _)
\* s ILIKE p: % matches any run of characters, _ any one character, every
\* other character matches itself in either case
ILike(s, p) ==
    IF p = <<>> THEN s = <<>>
    ELSE IF Head(p) = "%"
         THEN ILike(s, Tail(p)) \/ (s # <<>> /\ ILike(Tail(s), p))
         ELSE /\ s # <<>>
              /\ (Head(p) = "_" \/ LowerChar(Head(p)) = LowerChar(Head(s)))
              /\ ILike(Tail(s), Tail(p))

----------------------------------------------------------------------------
(* The table movie_reviews *)

Row(g, u, un, m, mn, score, time) ==
    [guild_id |-> g, user_id |-> u, user_name |-> un, movie_id |-> m,
     movie_name |-> mn, review_score |-> score, review_time |-> time]

\* the conflict target of the INSERT
Conflict(r, new) ==
    /\ r.guild_id = new.guild_id
    /\ r.user_id = new.user_id
    /\ r.movie_id = new.movie_id

\* the SET clause without review_time
DoUpdateScoreOnly(r, new) ==
    [r EXCEPT !.review_score = new.review_score]

\* ON CONFLICT ... DO NOTHING
DoNothing(r, new) == r

\* a SET clause that takes every column of the new row
DoUpdateAll(r, new) == new

\* the SET clause of the INSERT
DoUpdate(r, new) ==
    [r EXCEPT !.review_score = new.review_score,
              !.review_time = new.review_time]

\* a plain INSERT into a table without the unique index
InsertOnly(st, new) == st \cup {new}

\* INSERT ... ON CONFLICT (guild_id, user_id, movie_id) DO UPDATE SET ...
Upsert(st, new) ==
    IF \E r \in st : Conflict(r, new)
    THEN {IF Conflict(r, new) THEN DoUpdate(r, new) ELSE r : r \in st}
    ELSE st \cup {new}

----------------------------------------------------------------------------
(* The OMDB service: what one GET can come back with *)

CatalogTitles(id) ==
    IF id = "tt1" THEN {Up} ELSE IF id = "tt2" THEN {Up, Us} ELSE {}

\* session.get raised (no answer at all)
TransportError == [ok |-> FALSE]

HttpError == [ok |-> TRUE, status |-> 503]

ResponseFalse == [ok |-> TRUE, status |-> 200, data |-> [Response |-> "False"]]

\* the object OMDB answers a lookup by id with; the values the handlers do
\* not show are kept short
MovieJson(id, t) ==
    [Response |-> "True", Title |-> t, Year |-> "2009", imdbID |-> id,
     Rated |-> "PG", Released |-> "N/A", Runtime |-> "N/A", Genre |-> "N/A",
     Director |-> "N/A", Writer |-> "N/A", Actors |-> "N/A", Plot |-> "N/A"]

\* an answer that says "True" and lacks keys of the movie object
IncompleteTrue ==
    [ok |-> TRUE, status |-> 200, data |-> [Response |-> "True"]]

LookupResponses(id) ==
    {TransportError, HttpError, ResponseFalse}
        \cup (IF CatalogTitles(id) = {} THEN {} ELSE {IncompleteTrue})
        \cup {[ok |-> TRUE, status |-> 200, data |-> MovieJson(id, t)] :
                t \in CatalogTitles(id)}

\* The outcome of a GET in the words of the resolver contract
Outcome(resp) ==
    IF ~resp.ok \/ resp.status # 200 THEN "ExternalUnavailable"
    ELSE IF resp.data.Response = "True" THEN "Found" ELSE "NotFound"

\* Review.fetch_movie_imdb_data_by_imdb_id, once session.get has answered
fetch_movie_imdb_data_by_imdb_id(resp) ==
    IF resp.status = 200
    THEN IF resp.data.Response = "True" THEN resp.data ELSE None
    ELSE None

\* the keys OmdbMovie.from_dict reads by subscript
MovieKeys ==
    {"Title", "Year", "Rated", "Released", "Runtime", "Genre", "Director",
     "Writer", "Actors", "Plot"}

\* OmdbMovie.from_dict raises KeyError
FromDictRaises(data) == ~(MovieKeys \subseteq DOMAIN data)

\* OmdbMovie.from_dict on an object that has the keys: the fields the
\* handlers read
OmdbMovie(data) ==
    [title |-> data.Title, year |-> data.Year, plot |-> data.Plot,
     actors |-> data.Actors, genre |-> data.Genre,
     released |-> data.Released, runtime |-> data.Runtime]

\* a lookup by id that ends in an exception: session.get raises, or the
\* answer is taken and from_dict raises on it
LookupRaises(resp) ==
    \/ ~resp.ok
    \/ /\ fetch_movie_imdb_data_by_imdb_id(resp) # None
       /\ FromDictRaises(fetch_movie_imdb_data_by_imdb_id(resp))

----------------------------------------------------------------------------
----------------------------------------------------------------------------
(* /review and the select menu it posts *)

ReviewNames == Movies \cup {""}

\* variant: the menu is posted whatever the lookup returned
ReviewNoGuard(name, resp) ==
    /\ LET raised == LookupRaises(resp)
           imdb_data == IF raised THEN None
                        ELSE fetch_movie_imdb_data_by_imdb_id(resp)
       IN /\ views' = IF raised THEN views
                      ELSE views \cup {<<name, IF imdb_data = None THEN Up
                                               ELSE OmdbMovie(imdb_data).title>>}
          /\ last' = [op |-> "review",
                      upstream |-> Outcome(resp), raised |-> raised,
                      sent |-> IF raised THEN "nothing"
                               ELSE "embed and view"]
    /\ UNCHANGED <<store, pending, acking, reading, done, clock, nsub, bot>>

\* Review.review
Review(name, resp) ==
    /\ LET raised == LookupRaises(resp)
           imdb_data == IF raised THEN None
                        ELSE fetch_movie_imdb_data_by_imdb_id(resp)
       IN /\ views' = IF raised \/ imdb_data = None THEN views
                      ELSE views \cup {<<name, OmdbMovie(imdb_data).title>>}
          /\ last' = [op |-> "review",
                      upstream |-> Outcome(resp), raised |-> raised,
                      sent |-> IF raised THEN "nothing"
                               ELSE IF imdb_data = None
                                    THEN "Movie not found."
                                    ELSE "embed and view"]
    /\ UNCHANGED <<store, pending, acking, reading, done, clock, nsub, bot>>

\* the rows of a set of running callbacks
Rows(cs) == {c.row : c \in cs}

\* ReviewSelect.callback up to the await of the pool: the score and the
\* review time are fixed here. Time counts from the first reading of the
\* clock; between two readings it stands still or moves on. A running
\* callback is its number and the row it is about to write.
StartCallback(v, g, u, un, val) ==
    /\ nsub < MaxSubmissions
    /\ nsub' = nsub + 1
    /\ clock' \in (IF nsub = 0 THEN {clock} ELSE {clock, clock + 1})
    /\ pending' = pending \cup
          {[n |-> nsub',
            row |-> Row(g, u, un, v[1], v[2], IntOf(val), clock')]}
    /\ last' = [op |-> "callback"]
    /\ UNCHANGED <<store, views, acking, reading, done, bot>>

\* variant: the acknowledgement is sent first, inside the block
CallbackEventsAckFirst(outcome) ==
    <<"acquire", "send", "execute", "release">>

\* what one run of callback has done with the pool, the table and the
\* interaction when it ends, in program order: conn.execute is inside the
\* "async with" block, send_message comes after it; an exception of
\* acquire ends the run before a connection is held, an exception of the
\* statement leaves the block, which releases the connection, and an
\* exception of send_message leaves the row written and nothing sent
CallbackEvents(outcome) ==
    IF outcome = "acquire raised" THEN <<"acquire">>
    ELSE <<"acquire", "execute", "release">>
            \o (IF outcome = "sent" THEN <<"send">> ELSE <<>>)

\* ReviewSelect.callback from the await of the pool to the end of the
\* "async with" block: the INSERT has run and the connection is released
ExecuteCallback(c) ==
    /\ HasPool
    /\ store' = Upsert(store, c.row)
    /\ pending' = pending \ {c}
    /\ acking' = acking \cup {c}
    /\ done' = done \cup {c.row}
    /\ last' = [op |-> "execute", row |-> c.row]
    /\ UNCHANGED <<views, reading, clock, nsub, bot>>

\* ReviewSelect.callback: interaction.response.send_message has sent
\* "Thank you for your review of {score}/10!"
AckCallback(c) ==
    /\ acking' = acking \ {c}
    /\ last' = [op |-> "ack", row |-> c.row, sent |-> c.row.review_score,
                events |-> CallbackEvents("sent")]
    /\ UNCHANGED <<store, views, pending, reading, done, clock, nsub, bot>>

\* ReviewSelect.callback when send_message raises: the row stays written
AckFails(c) ==
    /\ acking' = acking \ {c}
    /\ last' = [op |-> "ack failed", row |-> c.row, raised |-> TRUE,
                events |-> CallbackEvents("send raised")]
    /\ UNCHANGED <<store, views, pending, reading, done, clock, nsub, bot>>

\* ReviewSelect.callback when pool.acquire or the statement raises
FailCallback(c, outcome) ==
    /\ HasPool
    /\ pending' = pending \ {c}
    /\ last' = [op |-> "callback", raised |-> TRUE,
                events |-> CallbackEvents(outcome)]
    /\ UNCHANGED <<store, views, acking, reading, done, clock, nsub, bot>>

\* ReviewSelect.callback on a bot without the attribute pg_pool: the
\* expression self.bot.pg_pool raises AttributeError
CallbackWithoutPool(c) ==
    /\ ~HasPool
    /\ pending' = pending \ {c}
    /\ last' = [op |-> "acquire", handler |-> "callback",
                handle |-> "unset", raised |-> TRUE, setup |-> bot.setup]
    /\ UNCHANGED <<store, views, acking, reading, done, clock, nsub, bot>>

\* the two commands that read the table
ReadHandlers == {"list_reviews", "get_reviewed_movie_stats"}

\* list_reviews or get_reviewed_movie_stats on a bot without the attribute
\* pg_pool: AttributeError before anything is read or sent
ReadWithoutPool(h) ==
    /\ ~HasPool
    /\ last' = [op |-> "acquire", handler |-> h,
                handle |-> "unset", raised |-> TRUE, setup |-> bot.setup]
    /\ UNCHANGED <<store, views, pending, acking, reading, done, clock,
                   nsub, bot>>

----------------------------------------------------------------------------
(* Start-up and shutdown of the bot *)

\* The surrounding application gives the bot its pool at start-up, before
\* any handler runs: the handlers read self.bot.pg_pool and nothing in
\* src/ assigns it
AttachPool ==
    /\ last.op = "init"
    /\ ~HasPool
    /\ bot' = [bot EXCEPT !.attrs = @ \cup {"pg_pool"}]
    /\ last' = [op |-> "attach"]
    /\ UNCHANGED <<store, views, pending, acking, reading, done, clock, nsub>>

\* RumbleReviewsBot.setup_hook, which Client.login awaits once: tree.sync,
\* which may raise, then AsyncIOMotorClient(self.env_loader.mongodb_url),
\* which raises AttributeError when EnvLoader has no such field
SetupHook(synced) ==
    /\ bot.setup = "not run"
    /\ ~bot.closed
    /\ LET raised == ~synced \/ "mongodb_url" \notin EnvLoaderAttrs
       IN /\ bot' = IF raised THEN [bot EXCEPT !.setup = "raised"]
                    ELSE [bot EXCEPT !.setup = "done",
                                     !.mongo_client = "open",
                                     !.attrs = @ \cup {"db"}]
          /\ last' = [op |-> "setup_hook", raised |-> raised,
                      opened |-> IF raised THEN {} ELSE {"mongo_client"}]
    /\ UNCHANGED <<store, views, pending, acking, reading, done, clock, nsub>>

\* RumbleReviewsBot.close, called by the shutdown command and by the exit
\* of "async with RumbleReviewsBot() as bot": self.mongo_client.close()
\* raises AttributeError on None, and super().close() is then not reached
Close ==
    /\ ~bot.closed
    /\ LET raised == bot.mongo_client = "None"
       IN /\ bot' = IF raised THEN bot
                    ELSE [bot EXCEPT !.mongo_client = "closed",
                                     !.closed = TRUE]
          /\ last' = [op |-> "close", raised |-> raised,
                      acted_on |-> bot.mongo_client,
                      setup |-> bot.setup]
    /\ UNCHANGED <<store, views, pending, acking, reading, done, clock, nsub>>

----------------------------------------------------------------------------
(* The two SELECT statements *)

RECURSIVE SumScores(_)
SumScores(rs) ==
    IF rs = {} THEN 0
    ELSE LET r == CHOOSE x \in rs : TRUE
         IN r.review_score + SumScores(rs \ {r})

\* AVG(review_score) over a non-empty set of rows, as the exact fraction
Avg(rs) == [num |-> SumScores(rs), den |-> Cardinality(rs)]

\* a >= b for two such fractions
AvgGeq(a, b) == a.num * b.den >= b.num * a.den

\* the SELECT without its WHERE guild_id = $1
AnyGuildRows(st, g) == st

\* WHERE guild_id = $1
GuildRows(st, g) == {r \in st : r.guild_id = g}

\* GROUP BY movie_id, movie_name
GroupKey(r) == <<r.movie_id, r.movie_name>>

\* one row of the SELECT of list_reviews
AggregateRow(rs, k) ==
    LET grp == {r \in rs : GroupKey(r) = k}
    IN [movie_id |-> k[1], movie_name |-> k[2],
        avg_score |-> Avg(grp), num_reviews |-> Cardinality(grp)]

\* the rows of the SELECT of list_reviews, before ORDER BY
Aggregates(st, g) ==
    LET rs == GuildRows(st, g)
    IN {AggregateRow(rs, k) : k \in {GroupKey(r) : r \in rs}}

\* the sequences that hold each element of S once
Arrangements(S) ==
    {f \in [1..Cardinality(S) -> S] :
        \A i, j \in 1..Cardinality(S) : i # j => f[i] # f[j]}

\* ORDER BY avg_score DESC: every order of the rows the clause allows
ListQuery(st, g) ==
    {f \in Arrangements(Aggregates(st, g)) :
        \A i, j \in 1..Len(f) : i < j => AvgGeq(f[i].avg_score, f[j].avg_score)}

\* the columns the SELECT of get_reviewed_movie_stats returns
StatsRow(r) ==
    [user_id |-> r.user_id, user_name |-> r.user_name,
     review_score |-> r.review_score, review_time |-> r.review_time,
     movie_id |-> r.movie_id, movie_name |-> r.movie_name]

\* WHERE guild_id = $1 AND movie_name ILIKE $2
StatsMatches(st, g, name) ==
    {r \in GuildRows(st, g) : ILike(r.movie_name, name)}

\* the query without its ORDER BY clause
StatsQueryUnordered(st, g, name) ==
    Arrangements({StatsRow(r) : r \in StatsMatches(st, g, name)})

\* ORDER BY review_time ASC: every order of the rows the clause allows
StatsQuery(st, g, name) ==
    {f \in Arrangements({StatsRow(r) : r \in StatsMatches(st, g, name)}) :
        \A i, j \in 1..Len(f) : i < j => f[i].review_time <= f[j].review_time}

----------------------------------------------------------------------------
(* /list_reviews and /get_reviewed_movie_stats *)

\* f"{avg_score:.1f}" in tenths: the fraction rounded half to even
Format1f(a) ==
    LET q == (10 * a.num) \div a.den
        r == (10 * a.num) % a.den
    IN IF 2 * r > a.den \/ (2 * r = a.den /\ q % 2 = 1) THEN q + 1 ELSE q

\* the answers of OMDB to the lookups of one run of list_reviews: one GET,
\* and so one answer, per row of the SELECT
Answers(rows) ==
    {a \in [1..Len(rows) ->
              UNION {LookupResponses(rows[i].movie_id) : i \in 1..Len(rows)}] :
        \A i \in 1..Len(rows) : a[i] \in LookupResponses(rows[i].movie_id)}

\* the embed field list_reviews adds for one row, given the answer of OMDB
ListField(row, resp) ==
    LET movie_data == fetch_movie_imdb_data_by_imdb_id(resp)
    IN IF movie_data = None THEN <<>>
       ELSE <<[movie_id |-> row.movie_id,
               name |-> <<OmdbMovie(movie_data).title,
                          OmdbMovie(movie_data).year>>,
               avg |-> Format1f(row.avg_score),
               reviews |-> row.num_reviews]>>

RECURSIVE ListFields(_, _)
\* the loop over rows of list_reviews
ListFields(rows, answers) ==
    IF rows = <<>> THEN <<>>
    ELSE ListField(Head(rows), Head(answers))
            \o ListFields(Tail(rows), Tail(answers))

RECURSIVE ListLookups(_, _)
\* the OMDB lookups the loop of list_reviews starts, up to the one that raises
ListLookups(rows, answers) ==
    IF rows = <<>> THEN <<>>
    ELSE <<"lookup">> \o (IF LookupRaises(Head(answers)) THEN <<>>
                          ELSE ListLookups(Tail(rows), Tail(answers)))

\* what one run of list_reviews has done with the pool, the table, OMDB and
\* the interaction when it ends, in program order: the whole body is inside
\* the "async with self.bot.pg_pool.acquire()" block, which releases the
\* connection on return and on an exception
ListEvents(rows, answers) ==
    LET raised == \E i \in 1..Len(rows) : LookupRaises(answers[i])
    IN <<"acquire", "query">>
         \o (IF rows = <<>> THEN <<"send">>
             ELSE ListLookups(rows, answers)
                    \o (IF raised THEN <<>> ELSE <<"send">>))
         \o <<"release">>

\* a number no run in rs carries
FreeNumber(rs) == CHOOSE n \in 1..MaxReaders : \A r \in rs : r.n # n

\* Review.list_reviews up to the return of conn.fetch: the rows are those
\* of the table as it is now
ListStart(g, rows) ==
    /\ HasPool
    /\ Cardinality(reading) < MaxReaders
    /\ rows \in ListQuery(store, g)
    /\ reading' = reading \cup
          {[n |-> FreeNumber(reading), handler |-> "list_reviews",
            guild |-> g, name |-> <<>>, rows |-> rows]}
    /\ last' = [op |-> "list query", guild |-> g, rows |-> rows]
    /\ UNCHANGED <<store, views, pending, acking, done, clock, nsub, bot>>

\* Review.list_reviews from the rows to its answer: the lookups, one per
\* row, and the message
ListFinish(run, answers) ==
    /\ run.handler = "list_reviews"
    /\ reading' = reading \ {run}
    /\ LET rows == run.rows
           raised == \E i \in 1..Len(rows) : LookupRaises(answers[i])
       IN last' = [op |-> "list", guild |-> run.guild, rows |-> rows,
                   raised |-> raised,
                   sent |-> IF rows = <<>>
                            THEN "No reviews found for this server."
                            ELSE IF raised THEN "nothing" ELSE "embed",
                   fields |-> IF rows = <<>> \/ raised THEN <<>>
                              ELSE ListFields(rows, answers),
                   events |-> ListEvents(rows, answers)]
    /\ UNCHANGED <<store, views, pending, acking, done, clock, nsub, bot>>

\* the users bot.get_user finds in its cache, and their account names
CachedUsers == {1}
AccountName(u) == "ann#1"

\* the embed field get_reviewed_movie_stats adds for one row
StatsField(row) ==
    [user_name |-> IF row.user_id \in CachedUsers
                   THEN AccountName(row.user_id) ELSE row.user_name,
     review_time |-> row.review_time,
     score |-> row.review_score]

\* what a member types as movie_name
NamePatterns == {<<"u", "p">>}

\* what one run of get_reviewed_movie_stats has done with the pool, the
\* table, OMDB and the interaction when it ends, in program order: the
\* query, the lookup and every send_message are inside the "async with"
\* block
StatsEvents(rows, resp) ==
    <<"acquire", "query">>
      \o (IF rows = <<>> THEN <<"send">>
          ELSE <<"lookup">>
                 \o (IF LookupRaises(resp) THEN <<>> ELSE <<"send">>))
      \o <<"release">>

\* Review.get_reviewed_movie_stats up to the return of conn.fetch
StatsStart(g, name, rows) ==
    /\ HasPool
    /\ Cardinality(reading) < MaxReaders
    /\ rows \in StatsQuery(store, g, name)
    /\ reading' = reading \cup
          {[n |-> FreeNumber(reading),
            handler |-> "get_reviewed_movie_stats",
            guild |-> g, name |-> name, rows |-> rows]}
    /\ last' = [op |-> "stats query", guild |-> g, name |-> name,
                rows |-> rows]
    /\ UNCHANGED <<store, views, pending, acking, done, clock, nsub, bot>>

\* Review.get_reviewed_movie_stats from the rows to its answer: the lookup
\* of the first row's movie_id and the message
StatsFinish(run, resp) ==
    /\ run.handler = "get_reviewed_movie_stats"
    /\ reading' = reading \ {run}
    /\ LET rows == run.rows
           raised == rows # <<>> /\ LookupRaises(resp)
           imdb_data == IF rows = <<>> \/ raised THEN None
                        ELSE fetch_movie_imdb_data_by_imdb_id(resp)
           shown == rows # <<>> /\ imdb_data # None
       IN last' = [op |-> "stats", guild |-> run.guild, name |-> run.name,
                   rows |-> rows,
                   raised |-> raised,
                   upstream |-> IF rows = <<>> THEN "none" ELSE Outcome(resp),
                   sent |-> IF rows = <<>>
                            THEN "No reviews found for this movie in this server."
                            ELSE IF raised THEN "nothing"
                            ELSE IF imdb_data = None THEN "Movie not found."
                            ELSE "embed",
                   imdb_id |-> IF rows = <<>> THEN "" ELSE rows[1].movie_id,
                   fields |-> IF shown
                              THEN [i \in 1..Len(rows) |-> StatsField(rows[i])]
                              ELSE <<>>,
                   events |-> StatsEvents(rows, resp)]
    /\ UNCHANGED <<store, views, pending, acking, done, clock, nsub, bot>>

----------------------------------------------------------------------------
(* The autocomplete of /review *)

RECURSIVE Lower(_)
\* str.lower()
Lower(s) == IF s = <<>> THEN <<>> ELSE <<LowerChar(Head(s))>> \o Lower(Tail(s))

RECURSIVE LStrip(_)
LStrip(s) ==
    IF s # <<>> /\ Head(s) = " " THEN LStrip(Tail(s)) ELSE s

RECURSIVE RStrip(_)
RStrip(s) ==
    IF s # <<>> /\ s[Len(s)] = " " THEN RStrip(SubSeq(s, 1, Len(s) - 1)) ELSE s

\* variant: the input is taken as typed
NoStrip(s) == s

\* str.strip()
Strip(s) == RStrip(LStrip(s))

Currents == {<<>>, <<" ">>, <<"U", "p">>, <<" ", "u", " ">>}

DigitChars == <<"0", "1", "2", "3", "4", "5", "6", "7", "8", "9">>

\* imdbID of the i-th title OMDB knows
HitIds == <<"tt1", "tt2", "tt3", "tt4", "tt5", "tt6", "tt7", "tt8">>

\* the i-th title OMDB knows, as an element of "Search"
Hit(i) ==
    [Title |-> IF i % 2 = 1 THEN Up ELSE Us,
     Year |-> <<"2", "0", "0", DigitChars[(i % 10) + 1]>>,
     imdbID |-> HitIds[i], Poster |-> "N/A", Type |-> "movie"]

\* the "Search" arrays OMDB may answer with: any run of the titles it knows
SearchLists ==
    {[k \in 1..(j - i + 1) |-> Hit(i + k - 1)] :
        i \in 1..(MaxResults + 1), j \in 0..MaxResults}

SearchResponses ==
    {TransportError, HttpError, ResponseFalse}
        \cup {[ok |-> TRUE, status |-> 200,
               data |-> [Response |-> "True", Search |-> l]] :
                l \in SearchLists}

\* Review.fetch_movie_imdb_data, once session.get has answered; the list it
\* returns is boxed in a record so that it compares with None
fetch_movie_imdb_data(resp) ==
    IF resp.status = 200
    THEN IF resp.data.Response = "True"
         THEN [list |-> resp.data.Search] ELSE None
    ELSE None

\* OmdbSearch.from_dict
OmdbSearch(x) ==
    [title |-> x.Title, year |-> x.Year, imdb_id |-> x.imdbID,
     poster |-> x.Poster, type |-> x.Type]

\* the two fixed choices; their names are kept in one piece
StartTyping == [name |-> <<"Start typing in the name of your movie/show!">>,
                value |-> ""]

NoResults == [name |-> <<"No results found, write a movie/show that exists in IMDB">>,
              value |-> ""]

\* app_commands.Choice(name=f"{result.title} - ({result.year})",
\*                     value=result.imdb_id)
Choice(result) ==
    [name |-> result.title \o <<" ", "-", " ", "(">> \o result.year \o <<")">>,
     value |-> result.imdb_id]

\* variant: the whole list
SliceAll(l, n) == l

\* formatted_search_results[:limit]
Slice(l, n) == SubSeq(l, 1, IF Len(l) < n THEN Len(l) ELSE n)

\* Review.play_autocomplete
PlayAutocomplete(current, resp) ==
    /\ LET blank == Strip(current) = <<>>
           raised == ~blank /\ ~resp.ok
           query_searched == IF blank \/ raised THEN None
                             ELSE fetch_movie_imdb_data(resp)
       IN last' = [op |-> "suggest", current |-> current,
                   query |-> IF blank THEN None ELSE Lower(current),
                   upstream |-> IF blank THEN "none" ELSE Outcome(resp),
                   found |-> IF blank \/ Outcome(resp) # "Found" THEN <<>>
                             ELSE resp.data.Search,
                   called |-> ~blank,
                   raised |-> raised,
                   choices |-> IF blank THEN <<StartTyping>>
                               ELSE IF raised THEN <<>>
                               ELSE IF query_searched = None THEN <<NoResults>>
                               ELSE LET formatted_search_results ==
                                          [i \in 1..Len(query_searched.list) |->
                                              OmdbSearch(query_searched.list[i])]
                                        shown == Slice(formatted_search_results, limit)
                                    IN [i \in 1..Len(shown) |-> Choice(shown[i])]]
    /\ UNCHANGED <<store, views, pending, acking, reading, done, clock,
                   nsub, bot>>

----------------------------------------------------------------------------
----------------------------------------------------------------------------
(* The specifications *)

\* the bot as main() builds it, on an empty table
Init ==
    /\ store = {}
    /\ views = {}
    /\ pending = {}
    /\ acking = {}
    /\ reading = {}
    /\ done = {}
    /\ clock = 0
    /\ nsub = 0
    /\ last = [op |-> "init"]
    /\ bot = Constructed

\* /review, the select menu and its callback
Rating ==
    \/ \E name \in ReviewNames : \E resp \in LookupResponses(name) :
          Review(name, resp)
    \/ \E v \in views, who \in Members, val \in Values :
          StartCallback(v, who[1], who[2], who[3], val)
    \/ \E c \in pending : ExecuteCallback(c)
    \/ \E c \in acking : AckCallback(c)
    \/ \E c \in acking : AckFails(c)
    \/ \E c \in pending :
          \E outcome \in {"acquire raised", "execute raised"} :
             FailCallback(c, outcome)
    \/ \E c \in pending : CallbackWithoutPool(c)

\* /list_reviews
Listing ==
    \/ \E g \in Guilds : \E rows \in ListQuery(store, g) : ListStart(g, rows)
    \/ \E run \in reading : \E answers \in Answers(run.rows) :
          ListFinish(run, answers)
    \/ ReadWithoutPool("list_reviews")

\* /get_reviewed_movie_stats
Details ==
    \/ \E g \in Guilds, name \in NamePatterns :
          \E rows \in StatsQuery(store, g, name) : StatsStart(g, name, rows)
    \/ \E run \in reading :
          \E resp \in (IF run.rows = <<>> THEN {TransportError}
                       ELSE LookupResponses(run.rows[1].movie_id)) :
             StatsFinish(run, resp)
    \/ ReadWithoutPool("get_reviewed_movie_stats")

\* start-up and shutdown
Lifecycle ==
    \/ \E synced \in BOOLEAN : SetupHook(synced)
    \/ Close

\* The lookup path alone: the autocomplete of /review, which reads nothing of
\* the bot's state, and /review
NextLookup ==
    \/ \E current \in Currents : \E resp \in SearchResponses :
          PlayAutocomplete(current, resp)
    \/ \E name \in ReviewNames : \E resp \in LookupResponses(name) :
          Review(name, resp)

SpecLookup == Init /\ [][NextLookup]_vars

\* The rating path
Next == AttachPool \/ Rating

Spec == Init /\ [][Next]_vars

\* The rating path and /list_reviews
NextList == Next \/ Listing

SpecList == Init /\ [][NextList]_vars

\* The rating path and /get_reviewed_movie_stats
NextStats == Next \/ Details

SpecStats == Init /\ [][NextStats]_vars

\* The rating path and both commands that read the table
NextReads == Next \/ Listing \/ Details

SpecReads == Init /\ [][NextReads]_vars

\* The rating path started on a table that an earlier run of the bot left
\* behind: the reviews outlive the process, the menus do not. The row is of
\* a member who has changed the display name since
StoredBefore == {Row(1, 1, "annie", "tt2", Up, 5, 0)}

InitRerate ==
    /\ store = StoredBefore
    /\ views = {}
    /\ pending = {}
    /\ acking = {}
    /\ reading = {}
    /\ done = {}
    /\ clock = 0
    /\ nsub = 0
    /\ last = [op |-> "init"]
    /\ bot = Constructed

SpecRerate == InitRerate /\ [][Next]_vars

\* The bot of __main__.py from its construction on, with the menus of /review
\* and the callbacks that reach the store
NextLife ==
    \/ Lifecycle
    \/ \E name \in ReviewNames : \E resp \in LookupResponses(name) :
          Review(name, resp)
    \/ \E v \in views, who \in Members, val \in Values :
          StartCallback(v, who[1], who[2], who[3], val)
    \/ \E c \in pending : CallbackWithoutPool(c)

SpecLife == Init /\ [][NextLife]_vars

----------------------------------------------------------------------------
(* Properties of the review store *)

\* two rows, or a row and a submission, of one (guild, user, movie) triple
SameTriple(a, b) ==
    /\ a.guild_id = b.guild_id
    /\ a.user_id = b.user_id
    /\ a.movie_id = b.movie_id

RowsOf(p) == {r \in store : SameTriple(r, p)}

\* C1: in every reachable state, whatever the interleaving of the rating
\* submissions, the store holds at most one row per (guild_id, user_id,
\* movie_id) triple.
C1_OneRowPerTriple ==
    \A r1, r2 \in store : SameTriple(r1, r2) => r1 = r2

\* a triple has been rated twice with different scores, and is stored
C1_Witness ==
    \E r \in store : \E d \in done :
        SameTriple(r, d) /\ d.review_score # r.review_score

\* C2: when the statement of an upsert has completed, exactly one row exists
\* for its triple and the score of that row is the score the upsert
\* submitted; so after a sequence of upserts of one triple that do not
\* overlap, the one row holds the score submitted last.
C2_LastScoreStored ==
    last.op = "execute" =>
        /\ Cardinality(RowsOf(last.row)) = 1
        /\ \A r \in RowsOf(last.row) : r.review_score = last.row.review_score

\* the statement of a re-rating with another score has just completed, after
\* an earlier rating of the same triple was acknowledged, and nothing else
\* is in flight
C2_Witness ==
    /\ last.op = "execute"
    /\ pending = {}
    /\ Rows(acking) = {last.row}
    /\ \E d \in done :
          /\ SameTriple(d, last.row)
          /\ d.review_score # last.row.review_score
          /\ d.review_time < last.row.review_time

\* C3: once all the concurrent upserts have completed, each triple that was
\* submitted has exactly one row, and the score and the review time of every
\* row are those of one single submission of its triple.
C3_OneSubmissionStored ==
    pending = {} =>
        /\ \A d \in done : Cardinality(RowsOf(d)) = 1
        /\ \A r \in store : \E d \in done :
              /\ SameTriple(r, d)
              /\ r.review_score = d.review_score
              /\ r.review_time = d.review_time

\* two submissions of one triple overlapped: the one that read the clock
\* first wrote last, so the row holds the earlier time
C3_Witness ==
    /\ pending = {}
    /\ \E r \in store : \E d \in done :
          /\ SameTriple(r, d)
          /\ d.review_score # r.review_score
          /\ r.review_time < d.review_time

\* C4: an upsert with a score outside 1..10 is rejected before it reaches
\* the store, so every stored row has a score from 1 to 10.
C4_ScoreInRange ==
    \A r \in store : MinScore <= r.review_score /\ r.review_score <= MaxScore

----------------------------------------------------------------------------
(* Properties of the listings *)

\* the stored rows of one title in one guild
TitleRows(g, m) == {r \in store : r.guild_id = g /\ r.movie_id = m}

\* C5: at any read, every (guild, movie_id) with a stored review has exactly
\* one aggregate in the result of the aggregation query, whose count is the
\* number of stored rows of that pair and whose average is the mean of their
\* scores, whatever movie_name the rows carry.
C5_OneAggregatePerTitle ==
    last.op = "list query" =>
        \A m \in Movies :
            TitleRows(last.guild, m) # {} =>
                \E i \in 1..Len(last.rows) :
                    /\ last.rows[i].movie_id = m
                    /\ \A j \in 1..Len(last.rows) :
                          last.rows[j].movie_id = m => j = i
                    /\ last.rows[i].num_reviews
                          = Cardinality(TitleRows(last.guild, m))
                    /\ last.rows[i].avg_score.num
                            * Cardinality(TitleRows(last.guild, m))
                          = SumScores(TitleRows(last.guild, m))
                            * last.rows[i].avg_score.den

\* every row a read of guild g returns is made of stored rows of guild g
C6_ReadsOwnGuild ==
    /\ last.op = "stats query" =>
          \A i \in 1..Len(last.rows) :
              \E r \in store :
                  r.guild_id = last.guild /\ StatsRow(r) = last.rows[i]
    /\ last.op = "list query" =>
          \A i \in 1..Len(last.rows) :
              LET own == {r \in store :
                            /\ r.guild_id = last.guild
                            /\ r.movie_id = last.rows[i].movie_id
                            /\ r.movie_name = last.rows[i].movie_name}
              IN /\ last.rows[i].num_reviews = Cardinality(own)
                 /\ last.rows[i].avg_score.num = SumScores(own)

\* names to compare the review listings on: what the members type, a name
\* with a wildcard, and one that matches one title only
FramePatterns == NamePatterns \cup {<<"U", "%">>, <<"_", "s">>}

\* the statement of an upsert leaves the results of both queries in every
\* other guild as they were
C6_UpsertFrame ==
    last'.op = "execute" =>
        \A g \in Guilds \ {last'.row.guild_id} :
            /\ ListQuery(store', g) = ListQuery(store, g)
            /\ \A name \in FramePatterns :
                  StatsQuery(store', g, name) = StatsQuery(store, g, name)

\* C6: an upsert in one guild leaves the aggregates and the review listings
\* of every other guild unchanged, and a read of a guild sees only rows of
\* that guild.
C6_GuildIsolation == []C6_ReadsOwnGuild /\ [][C6_UpsertFrame]_vars

\* a read of one guild has just returned rows while the other guild has a
\* row of the same user and movie
C6_Witness ==
    /\ last.op \in {"list query", "stats query"}
    /\ last.rows # <<>>
    /\ \E r1, r2 \in store :
          /\ r1.guild_id = last.guild
          /\ r2.guild_id # last.guild
          /\ r1.user_id = r2.user_id
          /\ r1.movie_id = r2.movie_id

\* C7: the listing list_reviews sends has one entry per aggregate row, also
\* when the lookup of a title at OMDB fails: the number of entries equals the
\* number of aggregates.
C7_NoTitleVanishes ==
    (last.op = "list" /\ last.sent = "embed") =>
        Len(last.fields) = Len(last.rows)

\* C10: get_reviewed_movie_stats never mixes titles: every review row it
\* shows has the movie_id of the first matching row.
C10_OneTitleOnly ==
    (last.op = "stats" /\ last.sent = "embed") =>
        /\ Len(last.fields) = Len(last.rows)
        /\ \A i \in 1..Len(last.rows) : last.rows[i].movie_id = last.imdb_id

----------------------------------------------------------------------------
(* Properties of the lookups *)

\* C8: in the autocomplete an upstream failure (no answer, or a status other
\* than 200) ends as a failure and never as the "no results" choice, which
\* is returned only when OMDB answered "not found" or with an empty list.
C8_UnavailableIsNotNoResults ==
    last.op = "suggest" =>
        /\ last.upstream = "ExternalUnavailable" => last.raised
        /\ last.choices = <<NoResults>> =>
              \/ last.upstream = "NotFound"
              \/ last.upstream = "Found" /\ last.found = <<>>

\* C9: the lookup by id tells an upstream failure from "not found", and
\* /review answers "Movie not found." only when OMDB answered "not found".
C9_NotFoundOnlyWhenNotFound ==
    last.op = "review" =>
        (last.sent = "Movie not found." => last.upstream = "NotFound")

----------------------------------------------------------------------------
(* Properties of the order of the listings *)

\* C11: the aggregation query of list_reviews returns the aggregates in
\* non-increasing order of avg_score, and the order of aggregates with equal
\* averages is fixed: every call on the same table returns the same
\* sequence.
C11_DeterministicOrder ==
    last.op = "list query" =>
        /\ \A i, j \in 1..Len(last.rows) :
              i < j => AvgGeq(last.rows[i].avg_score, last.rows[j].avg_score)
        /\ \A f \in ListQuery(store, last.guild) : f = last.rows

----------------------------------------------------------------------------
(* Properties of the use of the connection pool *)

\* the number of pooled connections the run holds just before its i-th event
Held(ev, i) ==
    Cardinality({k \in 1..(i - 1) : ev[k] = "acquire"})
        - Cardinality({k \in 1..(i - 1) : ev[k] = "release"})

\* C12: no request holds a pooled connection while a call to OMDB is in
\* flight: in list_reviews and get_reviewed_movie_stats the connection has
\* been released before any OMDB lookup starts.
C12_NoLookupWhileHeld ==
    last.op \in {"list", "stats"} =>
        \A i \in 1..Len(last.events) :
            last.events[i] = "lookup" => Held(last.events, i) = 0

----------------------------------------------------------------------------
(* Properties of the autocomplete *)

\* the input is empty or consists of spaces only
Blank(current) == \A i \in 1..Len(current) : current[i] = " "

\* C13: for an empty or whitespace-only input the autocomplete returns
\* exactly one choice, the "start typing" one, and sends no request to OMDB.
C13_BlankInput ==
    (last.op = "suggest" /\ Blank(last.current)) =>
        /\ last.choices = <<StartTyping>>
        /\ ~last.called
        /\ last.upstream = "none"

C13_Witness ==
    /\ last.op = "suggest"
    /\ last.current = <<" ">>
    /\ last.choices = <<StartTyping>>

Min(a, b) == IF a < b THEN a ELSE b

\* C14: for a non-blank input whose search OMDB answers with a non-empty
\* list, the autocomplete returns the first min(limit, n) results in the order
\* OMDB gave them, each as the choice ("{title} - ({year})", imdbID).
C14_FirstResultsInOrder ==
    (last.op = "suggest" /\ ~Blank(last.current) /\ last.upstream = "Found"
        /\ last.found # <<>>) =>
        /\ Len(last.choices) = Min(limit, Len(last.found))
        /\ \A i \in 1..Len(last.choices) :
              /\ last.choices[i].value = last.found[i].imdbID
              /\ last.choices[i].name =
                    last.found[i].Title \o <<" ", "-", " ", "(">>
                        \o last.found[i].Year \o <<")">>

C14_Witness ==
    /\ last.op = "suggest"
    /\ Len(last.found) > limit
    /\ Len(last.choices) = limit
    /\ last.choices[1].value # last.choices[2].value

\* C15: when the search finds nothing (OMDB answers that nothing was found,
\* or answers with an empty list), the autocomplete returns exactly one
\* choice, the "no results" one, whose value is the imdbID of no title.
C15_NoResultsSentinel ==
    (last.op = "suggest" /\ ~Blank(last.current)
        /\ (last.upstream = "NotFound"
              \/ (last.upstream = "Found" /\ last.found = <<>>))) =>
        /\ last.choices = <<NoResults>>
        /\ \A i \in 1..Len(HitIds) : NoResults.value # HitIds[i]

----------------------------------------------------------------------------
(* Properties of the rating targets *)

\* every row written or about to be written is for a movie id that OMDB
\* resolved in a /review run, which posted the menu the row came from; the
\* value of the two fixed autocomplete choices is the id of no row
C16_StoredAfterLookup ==
    \A r \in store \cup Rows(pending) \cup Rows(acking) \cup done :
        /\ r.movie_id # StartTyping.value
        /\ r.movie_id # NoResults.value
        /\ r.movie_name \in CatalogTitles(r.movie_id)
        /\ <<r.movie_id, r.movie_name>> \in views

\* a /review run whose lookup returned no title posts no menu
C16_NoMenuWithoutTitle ==
    (last'.op = "review" /\ (last'.upstream # "Found" \/ last'.raised)) =>
        /\ views' = views
        /\ last'.sent # "embed and view"

\* C16: an id that does not resolve (the value of a fixed autocomplete choice
\* included) never becomes a rating target: a row with movie_id c is only
\* stored after the OMDB lookup of a /review run for c succeeded, and a run
\* whose lookup returns nothing posts no menu, so that no upsert follows
\* from it.
C16_OnlyResolvedTitlesRated ==
    []C16_StoredAfterLookup /\ [][C16_NoMenuWithoutTitle]_vars

\* a /review run whose lookup OMDB answered with "not found" has sent "Movie
\* not found." and posted no menu, next to stored rows of resolved titles
C16_Witness ==
    /\ last.op = "review"
    /\ last.upstream = "NotFound"
    /\ last.sent = "Movie not found."
    /\ store # {}

----------------------------------------------------------------------------
(* Properties of /get_reviewed_movie_stats *)

\* C17: when at least one stored review matches, get_reviewed_movie_stats
\* always returns the reviews, in the order of the query; the metadata is
\* looked up for the movie_id of the first matching review, and when that
\* lookup fails the answer still carries the reviews. Stated for the runs in
\* which OMDB answered the request.
C17_ReviewsAlwaysReturned ==
    (last.op = "stats" /\ last.rows # <<>> /\ ~last.raised) =>
        /\ last.imdb_id = last.rows[1].movie_id
        /\ Len(last.fields) = Len(last.rows)
        /\ \A i \in 1..Len(last.rows) :
              /\ last.fields[i].score = last.rows[i].review_score
              /\ last.fields[i].review_time = last.rows[i].review_time

\* C18: the reviews get_reviewed_movie_stats returns are in ascending order
\* of review_time: of two consecutive rows the first is not the later one.
C18_AscendingReviewTime ==
    /\ last.op \in {"stats query", "stats"} =>
          \A i \in 1..(Len(last.rows) - 1) :
              last.rows[i].review_time <= last.rows[i + 1].review_time
    /\ last.op = "stats" =>
          \A i \in 1..(Len(last.fields) - 1) :
              last.fields[i].review_time <= last.fields[i + 1].review_time

C18_Witness ==
    /\ last.op = "stats"
    /\ Len(last.fields) = 2
    /\ last.fields[1].review_time < last.fields[2].review_time

----------------------------------------------------------------------------
(* Properties of re-rating *)

\* C19: re-rates of one (guild, user, movie) that run concurrently do not
\* lose the later write: the stored review_time of a triple never moves
\* backwards, so that the row holds the latest review_time of the completed
\* submissions of its triple, and with it the score of that submission.
C19_LatestWriteWins ==
    \A r \in store : \A d \in done :
        SameTriple(r, d) => d.review_time <= r.review_time


\* the columns of a row that no re-rating may change
SameIdentity(a, b) ==
    /\ SameTriple(a, b)
    /\ a.user_name = b.user_name
    /\ a.movie_name = b.movie_name

\* the step of the statement of a callback for the row last'.row: a row of
\* its triple keeps every column but review_score and review_time, which
\* become those of the submission, and the rows of the other triples are the
\* same before and after
C20_UpsertFrame ==
    last'.op = "execute" =>
        LET p == last'.row
        IN /\ \A r \in store : SameTriple(r, p) =>
                 \E r2 \in store' :
                    /\ SameIdentity(r2, r)
                    /\ r2.review_score = p.review_score
                    /\ r2.review_time = p.review_time
           /\ \A q \in store : ~SameTriple(q, p) => q \in store'
           /\ \A q \in store' : ~SameTriple(q, p) => q \in store

\* C20: a re-rating changes only review_score and review_time of the row of
\* its triple: guild_id, user_id, movie_id, user_name and movie_name keep the
\* values of the first submission, and every row of every other triple is
\* unchanged.
C20_ReRatingFrame == [][C20_UpsertFrame]_vars

\* a re-rating under a new display name and a new title has completed next
\* to a row of another triple
C20_Witness ==
    /\ last.op = "execute"
    /\ \E r \in store :
          /\ SameTriple(r, last.row)
          /\ r.user_name # last.row.user_name
          /\ r.movie_name # last.row.movie_name
          /\ r.review_score = last.row.review_score
          /\ r \notin StoredBefore
    /\ \E q \in store : ~SameTriple(q, last.row)

----------------------------------------------------------------------------
(* Properties of the life cycle of the bot *)

\* C21: every store operation runs on an open handle: the handle the review
\* handlers use is opened by setup_hook before any handler uses it, and
\* close, which closes it, never acts on a handle that was not opened.
C21_HandleLifecycle ==
    /\ last.op = "acquire" => (last.handle = "open" /\ last.setup = "done")
    /\ last.op = "close" => last.acted_on = "open"

----------------------------------------------------------------------------
(* Properties of the acknowledgement *)

\* the step of a callback that sends "Thank you for your review of
\* {score}/10!": the callback is one whose statement has completed and whose
\* connection is released, the message comes after both, and its score is
\* the score of the row this callback wrote
C22_AckAfterWrite ==
    last'.op = "ack" =>
        LET ev == last'.events
            p == last'.row
        IN /\ \E c \in acking : c.row = p /\ c \notin acking'
           /\ p \in done
           /\ \E i \in 1..Len(ev) : ev[i] = "send"
           /\ \A i \in 1..Len(ev) : ev[i] = "send" =>
                 /\ \E k \in 1..(i - 1) : ev[k] = "execute"
                 /\ Held(ev, i) = 0
           /\ last'.sent = p.review_score
           /\ store' = store

\* the step of a callback that ends with an exception: nothing is sent, and
\* when the exception is that of the pool or of the statement no row is
\* written
C22_NoAckOnFailure ==
    /\ (last'.op \in {"callback", "ack failed"} /\ "events" \in DOMAIN last') =>
          /\ \A i \in 1..Len(last'.events) : last'.events[i] # "send"
          /\ store' = store
    /\ (last'.op = "callback" /\ "events" \in DOMAIN last') =>
          /\ done' = done
          /\ acking' = acking

\* C22: the acknowledgement of a rating follows the write: it is sent only
\* after the upsert has completed and the connection has been released, it
\* is never sent when the write fails, and the score it names is the score
\* that the callback wrote.
C22_AckFollowsWrite == [][C22_AckAfterWrite /\ C22_NoAckOnFailure]_vars

\* a rating is acknowledged after a second callback of the same triple has
\* written another score over it
C22_Witness ==
    /\ last.op = "ack"
    /\ \E r \in store :
          SameTriple(r, last.row) /\ r.review_score # last.sent

====
